---- MODULE Spec2Model ----
(***************************************************************************)
(* State-machine model of scripts/extract-gif-frames.py: the __main__      *)
(* argument scanner followed by extract_frames (existence check, open,     *)
(* animation check, stride and output-directory resolution, makedirs,      *)
(* progress lines, the strided frame loop, summary, return) and the end    *)
(* of the interpreter process.                                             *)
(*                                                                         *)
(* Command-line tokens and paths are sequences of one-character strings,   *)
(* so that int(), os.path.splitext and the file-name formatting are        *)
(* computed character by character.                                        *)
(***************************************************************************)
EXTENDS Integers, Sequences, FiniteSets, TLC

VARIABLES
    argv,          \* sys.argv[1:], the tokens after the program name
    pc,            \* position in the program
    gif_path,      \* __main__ / extract_frames: gif_path
    max_frames,    \* __main__ / extract_frames: max_frames
    skip,          \* __main__ / extract_frames: skip, None or Some(n)
    output_dir,    \* __main__ / extract_frames: output_dir, None or a path
    args,          \* __main__: args = sys.argv[2:]
    i,             \* __main__: scan position in args (0-based as in the source)
    call,          \* the argument values extract_frames was called with, None before the call
    container,     \* the file at gif_path: whether it exists, its n_frames, its durations
    img,           \* the handle returned by Image.open: "none", "open" or "closed"
    opens,         \* number of Image.open calls made
    total_frames,  \* extract_frames: total_frames (0 while unbound, as the other integer locals)
    extracted,     \* extract_frames: extracted
    rng,           \* the range(0, total_frames, skip) iterator: its next value
    fi,            \* extract_frames: the loop variable i
    frame,         \* extract_frames: frame, None or Some(source index of the decoded still)
    duration,      \* extract_frames: duration
    dirs,          \* directories present in the filesystem
    files,         \* frame files present in the filesystem (their names)
    fs0,           \* the filesystem before the run
    log,           \* the observable events so far, in order
    exc,           \* the exception propagating out of the program, or NoExc
    ret,           \* the value returned by extract_frames, or None
    status         \* the exit status of the process, None while it runs

vars == <<argv, pc, gif_path, max_frames, skip, output_dir, args, i, call,
          container, img, opens, total_frames, extracted, rng, fi, frame,
          duration, dirs, files, fs0, log, exc, ret, status>>

\* Python's None, and a value that may be None: <<>> or <<v>>
None == <<>>

Some(v) == <<v>>

Val(o) == o[1]

NoExc == "none"

----------------------------------------------------------------------------
(* Bounds of the model.                                                    *)

\* longest token list after the container path, all such lists being tried
MaxArgs == 3
\* largest n_frames of a container in the runs from the command line
MaxCliFrames == 2
\* largest n_frames of a container
MaxTotalFrames == 7
\* largest max_frames / skip value passed directly to extract_frames
MaxParam == 4

\* the default of max_frames
DefaultMaxFrames == 30

----------------------------------------------------------------------------
(* Python primitives used by the program.                                  *)

Digits == <<"0", "1", "2", "3", "4", "5", "6", "7", "8", "9">>

DigitSet == {Digits[k] : k \in 1..10}

DigitValue(c) == (CHOOSE k \in 1..10 : Digits[k] = c) - 1

\* the digits of an int() argument after its optional sign
IntBody(t) == IF Len(t) >= 1 /\ t[1] \in {"-", "+"} THEN Tail(t) ELSE t

\* int(t) succeeds: an optional sign followed by at least one decimal digit
IsIntLiteral(t) ==
    /\ Len(IntBody(t)) >= 1
    /\ \A k \in 1..Len(IntBody(t)) : IntBody(t)[k] \in DigitSet

RECURSIVE DigitsValue(_)
DigitsValue(d) ==
    IF Len(d) = 0 THEN 0
    ELSE 10 * DigitsValue(SubSeq(d, 1, Len(d) - 1)) + DigitValue(d[Len(d)])

\* int(t) for a token on which it succeeds
PyInt(t) ==
    IF t[1] = "-" THEN 0 - DigitsValue(IntBody(t)) ELSE DigitsValue(IntBody(t))

\* a // b of Python (floor division), b # 0
PyFloorDiv(a, b) ==
    IF b > 0 THEN a \div b
    ELSE 0 - (((a + (0 - b)) - 1) \div (0 - b))

PyMax(a, b) == IF a >= b THEN a ELSE b

\* str(n) of a non-negative or negative integer
RECURSIVE NatStr(_)
NatStr(n) ==
    IF n < 10 THEN <<Digits[n + 1]>>
    ELSE NatStr(n \div 10) \o <<Digits[(n % 10) + 1]>>

PyStr(n) == IF n < 0 THEN <<"-">> \o NatStr(0 - n) ELSE NatStr(n)

\* format(n, "03d"): zero-padded to at least three characters, sign first
RECURSIVE ZeroPad(_, _)
ZeroPad(d, width) == IF Len(d) >= width THEN d ELSE ZeroPad(<<"0">> \o d, width)

Format03d(n) ==
    IF n < 0 THEN <<"-">> \o ZeroPad(NatStr(0 - n), 2) ELSE ZeroPad(NatStr(n), 3)

\* os.path.splitext(p)[0] for a path without directory separators: the part
\* before the last dot, a dot among the leading dots not counting
RECURSIVE LeadingDots(_)
LeadingDots(p) ==
    IF Len(p) >= 1 /\ p[1] = "." THEN 1 + LeadingDots(Tail(p)) ELSE 0

DotPositions(p) == {k \in 1..Len(p) : p[k] = "." /\ k > LeadingDots(p)}

SplitExtRoot(p) ==
    IF DotPositions(p) = {} THEN p
    ELSE SubSeq(p, 1, (CHOOSE k \in DotPositions(p) :
                          \A m \in DotPositions(p) : m <= k) - 1)

\* a range that includes its stop value
RangeHasNextInclusive(cur, stop, step) == IF step > 0 THEN cur <= stop ELSE cur >= stop

\* range(start, stop, step): whether the iterator at cur has a next value
RangeHasNext(cur, stop, step) == IF step > 0 THEN cur < stop ELSE cur > stop

----------------------------------------------------------------------------
(* Command-line tokens and the inputs of a run.                            *)

TokMaxFrames == <<"-", "-", "m", "a", "x", "-", "f", "r", "a", "m", "e", "s">>

TokSkip == <<"-", "-", "s", "k", "i", "p">>

TokOutputDir == <<"-", "-", "o", "u", "t", "p", "u", "t", "-", "d", "i", "r">>

\* a flag the scanner does not know, four integer-or-not values, a directory name
TokUnknown == <<"-", "-", "x">>

TokDir == <<"o">>

Tokens ==
    {TokMaxFrames, TokSkip, TokOutputDir, TokUnknown, TokDir,
     <<"0">>, <<"2">>, <<"-", "1">>}

GifPath == <<"a", ".", "g">>

FramesSuffix == <<"_", "f", "r", "a", "m", "e", "s">>

\* some longer command lines: both numbers given, all three flags given, a
\* value that is itself a flag
LongArgLists ==
    {<<TokSkip, <<"2">>, TokMaxFrames, <<"2">>>>,
     <<TokMaxFrames, <<"-", "1">>, TokUnknown, TokSkip, <<"2">>>>,
     <<TokOutputDir, TokDir, TokSkip, <<"0">>, TokMaxFrames, <<"2">>>>,
     <<TokOutputDir, TokSkip, <<"2">>, TokMaxFrames, TokSkip, <<"-", "1">>>>}

ArgLists == UNION {[1..n -> Tokens] : n \in 0..MaxArgs} \cup LongArgLists

\* the container file at gif_path: absent, or present with the value of its
\* n_frames attribute (None when the decoder gives the image none) and
\* whether its frames carry a 'duration' entry
Containers(maxN) ==
    {[exists |-> FALSE, n_frames |-> None, has_duration |-> FALSE]}
    \cup [exists : {TRUE},
          n_frames : {None} \cup {Some(n) : n \in 1..maxN},
          has_duration : BOOLEAN]

\* img.info['duration'] of the container's frame k, in milliseconds
FrameDuration(k) == 10 * (1 + (k % 3))

\* the command line that leaves the scanner with these values
ArgvFor(mf, sk, od) ==
    <<GifPath>>
    \o (IF mf = DefaultMaxFrames THEN <<>> ELSE <<TokMaxFrames, PyStr(mf)>>)
    \o (IF sk = None THEN <<>> ELSE <<TokSkip, PyStr(Val(sk))>>)
    \o (IF od = None THEN <<>> ELSE <<TokOutputDir, od>>)

\* the three scenarios of the specification: 100 frames with default
\* arguments, 10 frames with default arguments, 12 frames with --skip 5
Scenarios ==
    {<<[exists |-> TRUE, n_frames |-> Some(100), has_duration |-> TRUE], DefaultMaxFrames, None>>,
     <<[exists |-> TRUE, n_frames |-> Some(10), has_duration |-> TRUE], DefaultMaxFrames, None>>,
     <<[exists |-> TRUE, n_frames |-> Some(12), has_duration |-> TRUE], DefaultMaxFrames, Some(5)>>}

ParamValues == (-1)..MaxParam

CallInputs ==
    (Containers(MaxTotalFrames)
        \X (ParamValues \cup {DefaultMaxFrames})
        \X ({None} \cup {Some(n) : n \in ParamValues}))
    \cup Scenarios

\* the locals of extract_frames and the outcome of the run before anything ran
Fresh ==
    /\ call = None
    /\ img = "none"
    /\ opens = 0
    /\ total_frames = 0
    /\ extracted = 0
    /\ rng = 0
    /\ fi = 0
    /\ frame = None
    /\ duration = 0
    /\ files = {}
    /\ dirs \in {{}, {SplitExtRoot(GifPath) \o FramesSuffix}}
    /\ fs0 = [dirs |-> dirs, files |-> files]
    /\ log = <<>>
    /\ exc = NoExc
    /\ ret = None
    /\ status = None

\* the program at line 62, before anything ran
InitCLI ==
    /\ argv \in {<<>>} \cup {<<GifPath>> \o a : a \in ArgLists}
    /\ container \in Containers(MaxCliFrames)
    /\ pc = "main"
    /\ gif_path = None
    /\ max_frames = 0
    /\ skip = None
    /\ output_dir = None
    /\ args = <<>>
    /\ i = 0
    /\ Fresh

\* the program at line 87, the scanner having read the command line
Init ==
    /\ \E in \in CallInputs, od \in {None, TokDir} :
          /\ container = in[1]
          /\ max_frames = in[2]
          /\ skip = in[3]
          /\ output_dir = od
          /\ argv = ArgvFor(in[2], in[3], od)
    /\ gif_path = GifPath
    /\ args = Tail(argv)
    /\ i = Len(args)
    /\ pc = "call"
    /\ Fresh

----------------------------------------------------------------------------
(* __main__: usage check and the argument scanner (lines 62-87).           *)

ExtractVars == <<call, img, opens, total_frames, extracted, rng, fi, frame, duration>>

WorldVars == <<container, dirs, files, fs0>>

ScanVars == <<argv, gif_path, max_frames, skip, output_dir, args, i>>

\* an exception no handler catches leaves the program
Raise(e) ==
    /\ pc' = "uncaught"
    /\ exc' = e

\* an observable event: a print, or a call of a collaborator, with its number
Event(e, n) == [ev |-> e, n |-> n]

\* print(...) of one line
Emit(line) == log' = Append(log, Event(line, 0))

\* lines 63-65: no container path, print the usage text and sys.exit(1)
MainUsage ==
    /\ pc = "main"
    /\ Len(argv) < 1
    /\ Emit("usage")
    /\ pc' = "sys_exit"
    /\ UNCHANGED <<ScanVars, ExtractVars, WorldVars, exc, ret, status>>

\* lines 67-73: the defaults and the start of the scan
MainStart ==
    /\ pc = "main"
    /\ ~(Len(argv) < 1)
    /\ gif_path' = argv[1]
    /\ max_frames' = DefaultMaxFrames
    /\ skip' = None
    /\ output_dir' = None
    /\ args' = Tail(argv)
    /\ i' = 0
    /\ pc' = "scan"
    /\ UNCHANGED <<argv, ExtractVars, WorldVars, log, exc, ret, status>>

\* args[i] of the source (0-based)
Arg(k) == args[k + 1]

\* the scanner's test `args[i] == flag and i + 1 < len(args)`
FlagWithValue(flag) == Arg(i) = flag /\ i + 1 < Len(args)

\* --max-frames advancing past the flag only
ScanMaxFramesStepOne ==
    /\ pc = "scan"
    /\ i < Len(args)
    /\ FlagWithValue(TokMaxFrames)
    /\ IF IsIntLiteral(Arg(i + 1))
       THEN /\ max_frames' = PyInt(Arg(i + 1))
            /\ i' = i + 1
            /\ UNCHANGED <<pc, exc>>
       ELSE /\ Raise("ValueError")
            /\ UNCHANGED <<max_frames, i>>
    /\ UNCHANGED <<argv, gif_path, skip, output_dir, args,
                   ExtractVars, WorldVars, log, ret, status>>

\* lines 75-77
ScanMaxFrames ==
    /\ pc = "scan"
    /\ i < Len(args)
    /\ FlagWithValue(TokMaxFrames)
    /\ IF IsIntLiteral(Arg(i + 1))
       THEN /\ max_frames' = PyInt(Arg(i + 1))
            /\ i' = i + 2
            /\ UNCHANGED <<pc, exc>>
       ELSE /\ Raise("ValueError")
            /\ UNCHANGED <<max_frames, i>>
    /\ UNCHANGED <<argv, gif_path, skip, output_dir, args,
                   ExtractVars, WorldVars, log, ret, status>>

\* lines 78-80
ScanSkip ==
    /\ pc = "scan"
    /\ i < Len(args)
    /\ ~FlagWithValue(TokMaxFrames)
    /\ FlagWithValue(TokSkip)
    /\ IF IsIntLiteral(Arg(i + 1))
       THEN /\ skip' = Some(PyInt(Arg(i + 1)))
            /\ i' = i + 2
            /\ UNCHANGED <<pc, exc>>
       ELSE /\ Raise("ValueError")
            /\ UNCHANGED <<skip, i>>
    /\ UNCHANGED <<argv, gif_path, max_frames, output_dir, args,
                   ExtractVars, WorldVars, log, ret, status>>

\* lines 81-83
ScanOutputDir ==
    /\ pc = "scan"
    /\ i < Len(args)
    /\ ~FlagWithValue(TokMaxFrames)
    /\ ~FlagWithValue(TokSkip)
    /\ FlagWithValue(TokOutputDir)
    /\ output_dir' = Arg(i + 1)
    /\ i' = i + 2
    /\ UNCHANGED <<argv, pc, gif_path, max_frames, skip, args,
                   ExtractVars, WorldVars, log, exc, ret, status>>

\* lines 84-85
ScanOther ==
    /\ pc = "scan"
    /\ i < Len(args)
    /\ ~FlagWithValue(TokMaxFrames)
    /\ ~FlagWithValue(TokSkip)
    /\ ~FlagWithValue(TokOutputDir)
    /\ i' = i + 1
    /\ UNCHANGED <<argv, pc, gif_path, max_frames, skip, output_dir, args,
                   ExtractVars, WorldVars, log, exc, ret, status>>

\* line 74: the scan loop ends
ScanDone ==
    /\ pc = "scan"
    /\ ~(i < Len(args))
    /\ pc' = "call"
    /\ UNCHANGED <<ScanVars, ExtractVars, WorldVars, log, exc, ret, status>>

----------------------------------------------------------------------------
(* extract_frames (lines 15-59).                                           *)

EnvVars == <<container, fs0>>

\* line 87: the call, binding the parameters
CallExtract ==
    /\ pc = "call"
    /\ call' = Some([max_frames |-> max_frames, skip |-> skip, output_dir |-> output_dir])
    /\ pc' = "exists"
    /\ UNCHANGED <<ScanVars, img, opens, total_frames, extracted, rng, fi, frame,
                   duration, WorldVars, log, exc, ret, status>>

\* sys.exit(1): SystemExit leaves the program
SysExit ==
    /\ pc' = "sys_exit"
    /\ exc' = "SystemExit"

\* lines 16-18
CheckExists ==
    /\ pc = "exists"
    /\ IF ~container.exists
       THEN /\ Emit("Error: File not found")
            /\ SysExit
       ELSE /\ pc' = "open"
            /\ UNCHANGED <<log, exc>>
    /\ UNCHANGED <<ScanVars, ExtractVars, WorldVars, ret, status>>

\* the container opened a second time to read n_frames
OpenImageTwice ==
    /\ pc = "open"
    /\ img' = "open"
    /\ opens' = opens + 2
    /\ total_frames' = IF container.n_frames = None THEN 1 ELSE Val(container.n_frames)
    /\ pc' = "animated"
    /\ UNCHANGED <<ScanVars, call, extracted, rng, fi, frame, duration,
                   WorldVars, log, exc, ret, status>>

\* lines 20-21: Image.open and getattr(img, 'n_frames', 1)
OpenImage ==
    /\ pc = "open"
    /\ img' = "open"
    /\ opens' = opens + 1
    /\ total_frames' = IF container.n_frames = None THEN 1 ELSE Val(container.n_frames)
    /\ pc' = "animated"
    /\ UNCHANGED <<ScanVars, call, extracted, rng, fi, frame, duration,
                   WorldVars, log, exc, ret, status>>

\* line 20: the decoder rejects the file, Image.open raises
OpenFail ==
    /\ pc = "open"
    /\ opens' = opens + 1
    /\ Raise("DecodeError")
    /\ UNCHANGED <<ScanVars, call, img, total_frames, extracted, rng, fi, frame,
                   duration, WorldVars, log, ret, status>>

\* the animation test letting a single frame through
CheckAnimatedLenient ==
    /\ pc = "animated"
    /\ IF total_frames < 1
       THEN /\ Emit("Error: Not an animated GIF")
            /\ SysExit
       ELSE /\ pc' = "resolve_skip"
            /\ UNCHANGED <<log, exc>>
    /\ UNCHANGED <<ScanVars, ExtractVars, WorldVars, ret, status>>

\* lines 23-25
CheckAnimated ==
    /\ pc = "animated"
    /\ IF total_frames = 1
       THEN /\ Emit("Error: Not an animated GIF")
            /\ SysExit
       ELSE /\ pc' = "resolve_skip"
            /\ UNCHANGED <<log, exc>>
    /\ UNCHANGED <<ScanVars, ExtractVars, WorldVars, ret, status>>

\* the stride without its floor of 1
AutoSkipNoFloor(total, maxf) == PyFloorDiv(total, maxf)

\* line 29: max(1, total_frames // max_frames)
AutoSkip(total, maxf) == PyMax(1, PyFloorDiv(total, maxf))

\* lines 28-29
ResolveSkip ==
    /\ pc = "resolve_skip"
    /\ IF skip = None
       THEN IF max_frames = 0
            THEN /\ Raise("ZeroDivisionError")
                 /\ UNCHANGED skip
            ELSE /\ skip' = Some(AutoSkip(total_frames, max_frames))
                 /\ pc' = "resolve_dir"
                 /\ UNCHANGED exc
       ELSE /\ pc' = "resolve_dir"
            /\ UNCHANGED <<skip, exc>>
    /\ UNCHANGED <<argv, gif_path, max_frames, output_dir, args, i,
                   ExtractVars, WorldVars, log, ret, status>>

\* lines 32-34
ResolveOutputDir ==
    /\ pc = "resolve_dir"
    /\ output_dir' = IF output_dir = None
                     THEN SplitExtRoot(gif_path) \o FramesSuffix
                     ELSE output_dir
    /\ pc' = "makedirs"
    /\ UNCHANGED <<argv, gif_path, max_frames, skip, args, i,
                   ExtractVars, WorldVars, log, exc, ret, status>>

\* the output directory not ensured
MakeDirsOmitted ==
    /\ pc = "makedirs"
    /\ pc' = "header"
    /\ UNCHANGED <<ScanVars, ExtractVars, WorldVars, log, exc, ret, status>>

\* line 36: os.makedirs(output_dir, exist_ok=True)
MakeDirs ==
    /\ pc = "makedirs"
    /\ dirs' = dirs \cup {output_dir}
    /\ log' = Append(log, Event("makedirs", 0))
    /\ pc' = "header"
    /\ UNCHANGED <<ScanVars, ExtractVars, EnvVars, files, exc, ret, status>>

\* lines 38-42: the five progress lines
PrintHeader ==
    /\ pc = "header"
    /\ log' = log \o <<Event("GIF:", 0), Event("Total frames:", total_frames),
                       Event("Skip: every", Val(skip)), Event("Output:", 0),
                       Event("---", 0)>>
    /\ pc' = "loop_init"
    /\ UNCHANGED <<ScanVars, ExtractVars, WorldVars, exc, ret, status>>

\* lines 44-45: extracted = 0 and the range object; range() rejects a step of 0
LoopInit ==
    /\ pc = "loop_init"
    /\ extracted' = 0
    /\ IF Val(skip) = 0
       THEN /\ Raise("ValueError")
            /\ UNCHANGED rng
       ELSE /\ rng' = 0
            /\ pc' = "loop"
            /\ UNCHANGED exc
    /\ UNCHANGED <<ScanVars, call, img, opens, total_frames, fi, frame, duration,
                   WorldVars, log, ret, status>>

\* the break test off by one
BreakCondLate == extracted > max_frames

\* line 46: the test that ends the loop early
BreakCond == extracted >= max_frames

\* lines 45-47: the next candidate index, the loop's end, or the break
LoopNext ==
    /\ pc = "loop"
    /\ IF RangeHasNext(rng, total_frames, Val(skip))
       THEN /\ fi' = rng
            /\ rng' = rng + Val(skip)
            /\ pc' = IF BreakCond THEN "summary" ELSE "seek"
       ELSE /\ pc' = "summary"
            /\ UNCHANGED <<fi, rng>>
    /\ UNCHANGED <<ScanVars, call, img, opens, total_frames, extracted, frame,
                   duration, WorldVars, log, exc, ret, status>>

\* line 48: img.seek(i)
Seek ==
    /\ pc = "seek"
    /\ log' = Append(log, Event("seek", fi))
    /\ pc' = "convert"
    /\ UNCHANGED <<ScanVars, ExtractVars, WorldVars, exc, ret, status>>

\* a seek failure swallowed, the loop going on to the next candidate
SeekFailSkipsFrame ==
    /\ pc = "seek"
    /\ exc' = "DecodeError"
    /\ pc' = "loop"
    /\ UNCHANGED <<ScanVars, ExtractVars, WorldVars, log, ret, status>>

\* line 48: the decoder fails on the frame, img.seek raises
SeekFail ==
    /\ pc = "seek"
    /\ Raise("DecodeError")
    /\ UNCHANGED <<ScanVars, ExtractVars, WorldVars, log, ret, status>>

\* line 49: frame = img.convert("RGBA")
Convert ==
    /\ pc = "convert"
    /\ frame' = Some(fi)
    /\ log' = Append(log, Event("convert", fi))
    /\ pc' = "duration"
    /\ UNCHANGED <<ScanVars, call, img, opens, total_frames, extracted, rng, fi,
                   duration, WorldVars, exc, ret, status>>

\* line 49: the decoder fails on the frame's data, img.convert raises
ConvertFail ==
    /\ pc = "convert"
    /\ Raise("DecodeError")
    /\ UNCHANGED <<ScanVars, ExtractVars, WorldVars, log, ret, status>>

\* line 52: duration = img.info.get('duration', 0)
ReadDuration ==
    /\ pc = "duration"
    /\ duration' = IF container.has_duration THEN FrameDuration(fi) ELSE 0
    /\ pc' = "save"
    /\ UNCHANGED <<ScanVars, call, img, opens, total_frames, extracted, rng, fi,
                   frame, WorldVars, log, exc, ret, status>>

\* the sequence index and the source index exchanged in the file name
FrameNameSwapped(dir, seq, src, dur) ==
    [dir |-> dir, seq |-> Format03d(src), src |-> PyStr(seq), dur |-> PyStr(dur)]

\* line 54: the file name frame_{extracted:03d}_f{i}_d{duration}ms.png in
\* output_dir, as its directory and its three formatted fields
FrameName(dir, seq, src, dur) ==
    [dir |-> dir, seq |-> Format03d(seq), src |-> PyStr(src), dur |-> PyStr(dur)]

\* lines 54-56: save the frame and count it
Save ==
    /\ pc = "save"
    /\ files' = files \cup {FrameName(output_dir, extracted, fi, duration)}
    /\ log' = Append(log, Event("save", extracted))
    /\ extracted' = extracted + 1
    /\ pc' = "loop"
    /\ UNCHANGED <<ScanVars, call, img, opens, total_frames, rng, fi, frame,
                   duration, container, dirs, fs0, exc, ret, status>>

\* line 58
PrintSummary ==
    /\ pc = "summary"
    /\ log' = Append(log, Event("Extracted", extracted))
    /\ pc' = "return"
    /\ UNCHANGED <<ScanVars, ExtractVars, WorldVars, exc, ret, status>>

\* line 59: return; img goes out of scope without a close(), so whether its
\* file is closed now is up to the interpreter's finalisation
Return ==
    /\ pc = "return"
    /\ ret' = <<output_dir, extracted>>
    /\ img' \in {"open", "closed"}
    /\ pc' = "returned"
    /\ UNCHANGED <<ScanVars, call, opens, total_frames, extracted, rng, fi, frame,
                   duration, WorldVars, log, exc, status>>

\* the end of the process: after line 87, or when SystemExit(1) or another
\* exception leaves the program; the system closes what is still open
Terminate ==
    /\ pc \in {"returned", "sys_exit", "uncaught"}
    /\ status' = Some(IF pc = "returned" THEN 0 ELSE 1)
    /\ img' = IF img = "open" THEN "closed" ELSE img
    /\ pc' = "terminated"
    /\ UNCHANGED <<ScanVars, call, opens, total_frames, extracted, rng, fi, frame,
                   duration, WorldVars, log, exc, ret>>

----------------------------------------------------------------------------
(* The specifications.                                                     *)

\* extract_frames, called from line 87, to the end of the process
Next ==
    \/ CallExtract
    \/ CheckExists
    \/ OpenImage
    \/ OpenFail
    \/ CheckAnimated
    \/ ResolveSkip
    \/ ResolveOutputDir
    \/ MakeDirs
    \/ PrintHeader
    \/ LoopInit
    \/ LoopNext
    \/ Seek
    \/ SeekFail
    \/ Convert
    \/ ConvertFail
    \/ ReadDuration
    \/ Save
    \/ PrintSummary
    \/ Return
    \/ Terminate

Spec == Init /\ [][Next]_vars

\* the whole program, from the command line on
NextCLI ==
    \/ MainUsage
    \/ MainStart
    \/ ScanMaxFrames
    \/ ScanSkip
    \/ ScanOutputDir
    \/ ScanOther
    \/ ScanDone
    \/ Next

SpecCLI == InitCLI /\ [][NextCLI]_vars

----------------------------------------------------------------------------
(* The claims.                                                             *)

\* positions inside one iteration of the frame loop, after the break test
InIteration == pc \in {"seek", "convert", "duration", "save"}

\* the loop has been entered with valid values: at least two frames, and
\* max_frames and the stride both at least 1
ValidPlan ==
    /\ call # None
    /\ skip # None
    /\ total_frames >= 2
    /\ max_frames >= 1
    /\ Val(skip) >= 1

Min(a, b) == IF a <= b THEN a ELSE b

CeilDiv(a, b) == (a + b - 1) \div b

EventsOf(kind) == SelectSeq(log, LAMBDA e : e.ev = kind)

\* C1: with totalFrames >= 2, maxFrames >= 1 and stride >= 1, extracted and
\* the number of frame files never exceed maxFrames, and a candidate is
\* sought or saved only while extracted is still below maxFrames.
C1_NeverExceedsMaxFrames ==
    ValidPlan =>
        /\ extracted <= max_frames
        /\ Cardinality(files) <= max_frames
        /\ Len(EventsOf("save")) <= max_frames
        /\ InIteration => extracted < max_frames

\* the loop broke at a candidate it had fetched but did not process
C1_Witness ==
    /\ ValidPlan
    /\ pc = "summary"
    /\ extracted = max_frames
    /\ fi = extracted * Val(skip)
    /\ fi < total_frames
    /\ Len(EventsOf("seek")) = max_frames

\* C2: with totalFrames >= 2, maxFrames >= 1 and stride >= 1 the returned
\* count is min(maxFrames, ceil(totalFrames / stride)), which equals
\* ceil(min(totalFrames, maxFrames * stride) / stride); 12 frames with stride
\* 5 and maxFrames 30 give 3, 100 frames with default arguments give 30.
C2_ReturnedCount ==
    (ValidPlan /\ ret # None) =>
        /\ ret[2] = Min(max_frames, CeilDiv(total_frames, Val(skip)))
        /\ ret[2] = CeilDiv(Min(total_frames, max_frames * Val(skip)), Val(skip))
        /\ (total_frames = 12 /\ Val(skip) = 5 /\ max_frames = 30) => ret[2] = 3
        /\ (total_frames = 100 /\ Val(call).skip = None /\ max_frames = 30)
              => ret[2] = 30

\* the 100-frame run with default arguments has returned
C2_Witness ==
    /\ ValidPlan
    /\ ret # None
    /\ total_frames = 100
    /\ Val(call).skip = None
    /\ Val(call).max_frames = DefaultMaxFrames
    /\ ret[2] = 30

\* C3: at every point of the loop the files written carry the sequence
\* indices 0..extracted-1, each once, the file with sequence index k carries
\* source index k * stride, below totalFrames, and frames are sought and
\* saved in that order.
C3_DenseSequenceSparseSource ==
    skip # None =>
        /\ {DigitsValue(f.seq) : f \in files} = 0..(extracted - 1)
        /\ Cardinality(files) = extracted
        /\ \A f \in files :
              /\ IsIntLiteral(f.seq) /\ IsIntLiteral(f.src)
              /\ Len(f.seq) >= 3
              /\ PyInt(f.src) = PyInt(f.seq) * Val(skip)
              /\ PyInt(f.src) < total_frames
              /\ f.dir = output_dir
        /\ \A k \in 1..Len(EventsOf("save")) : EventsOf("save")[k].n = k - 1
        /\ \A k \in 1..Len(EventsOf("seek")) : EventsOf("seek")[k].n = (k - 1) * Val(skip)
        /\ Len(EventsOf("save")) = extracted

\* a finished run that wrote at least three frames with a stride above 1
C3_Witness ==
    /\ pc = "terminated"
    /\ ret # None
    /\ extracted >= 3
    /\ Val(skip) >= 2
    /\ Cardinality(files) = extracted

\* C4: without a supplied stride the stride used is max(1, floor(totalFrames
\* / maxFrames)), for totalFrames >= 2 and maxFrames >= 1 (100 and 30 give 3,
\* 10 and 30 give 1); a supplied stride is used unchanged.
C4_StrideResolution ==
    (call # None /\ skip # None /\ pc # "call" /\ pc # "exists" /\ pc # "open"
        /\ pc # "animated" /\ pc # "resolve_skip") =>
        /\ (Val(call).skip = None /\ total_frames >= 2 /\ max_frames >= 1) =>
              /\ Val(skip) >= 1
              /\ total_frames < max_frames => Val(skip) = 1
              /\ total_frames >= max_frames =>
                    /\ Val(skip) * max_frames <= total_frames
                    /\ total_frames < (Val(skip) + 1) * max_frames
              /\ (total_frames = 100 /\ max_frames = 30) => Val(skip) = 3
              /\ (total_frames = 10 /\ max_frames = 30) => Val(skip) = 1
        /\ Val(call).skip # None => skip = Val(call).skip

\* the loop iterates the 100-frame container with the computed stride 3
C4_Witness ==
    /\ call # None
    /\ Val(call).skip = None
    /\ total_frames = 100
    /\ max_frames = 30
    /\ skip = Some(3)
    /\ InIteration
    /\ fi = 6

\* C5: in every run that reaches the frame iteration the stride is >= 1 and
\* maxFrames is >= 1, whatever integers --skip and --max-frames gave.
C5_PlanInvariant ==
    (pc = "loop" \/ InIteration) => (Val(skip) >= 1 /\ max_frames >= 1)

ErrorLines == {"Error: File not found", "Error: Not an animated GIF"}

LastEvent == log[Len(log)]

NoFrameWork ==
    /\ EventsOf("makedirs") = <<>>
    /\ EventsOf("seek") = <<>>
    /\ EventsOf("convert") = <<>>
    /\ EventsOf("save") = <<>>
    /\ frame = None
    /\ dirs = fs0.dirs
    /\ files = fs0.files

\* C6: a missing container and a single-frame container both end the run
\* with exit status 1 after the error line, with the output directory not
\* created, no frame sought or decoded and no file written.
C6_EarlyFailures ==
    /\ (call # None /\ exc = "SystemExit") =>
          /\ Len(log) >= 1 /\ LastEvent.ev \in ErrorLines
          /\ NoFrameWork
          /\ pc \in {"sys_exit", "terminated"}
          /\ pc = "terminated" => status = Some(1)
    /\ (pc = "terminated" /\ ~container.exists) =>
          /\ exc = "SystemExit"
          /\ LastEvent.ev = "Error: File not found"
    /\ (pc = "terminated" /\ container.exists /\ exc # "DecodeError"
          /\ container.n_frames \in {None, Some(1)}) =>
          /\ exc = "SystemExit"
          /\ LastEvent.ev = "Error: Not an animated GIF"

\* the run on a one-frame container has ended
C6_Witness ==
    /\ pc = "terminated"
    /\ container.n_frames = Some(1)
    /\ opens = 1
    /\ exc = "SystemExit"
    /\ status = Some(1)
    /\ dirs = {}

\* what holds of a run once a decoder error was raised, in each state
DecodeErrorState ==
    exc = "DecodeError" =>
        /\ pc \in {"uncaught", "terminated"}
        /\ EventsOf("Extracted") = <<>>
        /\ ret = None
        /\ Cardinality(files) = extracted
        /\ Len(EventsOf("save")) = extracted
        /\ Len(EventsOf("seek")) <= extracted + 1
        /\ pc = "terminated" => status = Some(1)

\* C7 as claimed: a decoder error is caught at the top level and reported
\* as a one-line message, besides being fatal.
C7_CaughtAndReported ==
    /\ DecodeErrorState
    /\ exc = "DecodeError" =>
          /\ pc # "uncaught"
          /\ Len(log) >= 1
          /\ LastEvent.ev \in ErrorLines

\* C7, amended: a decoder error raised by open, seek or convert is caught
\* nowhere: it leaves the program as an uncaught exception, the program
\* prints no line of its own, and the process ends with status 1; the
\* failing frame is not retried, no later frame is processed or written,
\* no summary is printed, and the files of earlier frames stay.
C7_DecodeErrorIsFatal ==
    /\ []DecodeErrorState
    /\ [][/\ (exc = NoExc /\ exc' = "DecodeError") =>
               /\ pc' = "uncaught"
               /\ log' = log
               /\ files' = files
               /\ extracted' = extracted
          /\ exc = "DecodeError" =>
               /\ pc = "uncaught"
               /\ pc' = "terminated"
               /\ status' = Some(1)
               /\ log' = log
               /\ files' = files
               /\ dirs' = dirs
               /\ extracted' = extracted]_vars

\* the run ended on a decoder error after at least one frame was written
C7_Witness ==
    /\ exc = "DecodeError"
    /\ pc = "terminated"
    /\ extracted >= 1
    /\ Cardinality(files) = extracted
    /\ total_frames > extracted * Val(skip)

\* C8 as claimed: the handle is acquired at most once and is no longer open
\* after a successful return, after the missing-file failure and after the
\* single-frame failure.
C8_ReleasedOnEveryExitPath ==
    /\ opens <= 1
    /\ pc \in {"returned", "sys_exit", "terminated"} => img # "open"

\* C8, amended: the handle is acquired at most once, and not at all on the
\* missing-file failure; extract_frames never closes it, so after the
\* single-frame failure it is still open and after a successful return it
\* may be; it is released at the latest when the process ends.
C8_ReleasedByProcessEnd ==
    /\ opens <= 1
    /\ img # "none" => opens = 1
    /\ ~container.exists => (opens = 0 /\ img = "none")
    /\ img = "closed" => pc \in {"returned", "terminated"}
    /\ (pc = "sys_exit" /\ opens = 1) => img = "open"
    /\ pc = "terminated" => img # "open"

\* a successful run has ended and its one handle is closed
C8_Witness ==
    /\ pc = "terminated"
    /\ ret # None
    /\ opens = 1
    /\ img = "closed"

\* the scanner's values
ScanValues == <<max_frames, skip, output_dir>>

\* the token at the scan position is a recognized flag followed by a token
Recognized ==
    /\ i + 1 < Len(args)
    /\ args[i + 1] \in {TokMaxFrames, TokSkip, TokOutputDir}

\* the integer a value token of the model stands for
TokenNumber(t) ==
    CASE t = <<"0">> -> 0
      [] t = <<"2">> -> 2
      [] t = <<"-", "1">> -> -1

\* a recognized flag takes its value: two tokens consumed, its own value set
TakesValue ==
    /\ i' = i + 2
    /\ pc' = "scan"
    /\ exc' = NoExc
    /\ CASE args[i + 1] = TokMaxFrames ->
              /\ max_frames' = TokenNumber(args[i + 2])
              /\ skip' = skip /\ output_dir' = output_dir
         [] args[i + 1] = TokSkip ->
              /\ skip' = Some(TokenNumber(args[i + 2]))
              /\ max_frames' = max_frames /\ output_dir' = output_dir
         [] args[i + 1] = TokOutputDir ->
              /\ output_dir' = args[i + 2]
              /\ max_frames' = max_frames /\ skip' = skip

\* any other token is skipped: one token consumed, no value changed
SkipsToken ==
    /\ i' = i + 1
    /\ pc' = "scan"
    /\ exc' = NoExc
    /\ ScanValues' = ScanValues

\* every step of the scan moves forward within args, or ends the scan
ScanProgress ==
    \/ pc' = "scan" /\ i' > i /\ i' <= Len(args)
    \/ pc' = "call" /\ i >= Len(args) /\ i' = i /\ ScanValues' = ScanValues
    \/ pc' = "uncaught" /\ i' = i /\ ScanValues' = ScanValues

\* C9 as claimed: the scan terminates, a recognized flag followed by a token
\* consumes two tokens and sets only its own value, any other token is
\* skipped without error.
C9_EveryFlagValueAccepted ==
    [][pc = "scan" =>
          /\ ScanProgress
          /\ i < Len(args) => IF Recognized THEN TakesValue ELSE SkipsToken]_vars

\* the value token after --max-frames or --skip is not an integer literal
BadNumber ==
    /\ Recognized
    /\ args[i + 1] \in {TokMaxFrames, TokSkip}
    /\ args[i + 2] \notin {<<"0">>, <<"2">>, <<"-", "1">>}

\* C9, amended: as claimed, except that --max-frames or --skip followed by
\* a token that is not an integer literal raises an unhandled ValueError,
\* which ends the scan and the run with no value changed.
C9_ScanStep ==
    [][pc = "scan" =>
          /\ ScanProgress
          /\ i < Len(args) =>
                IF BadNumber
                THEN pc' = "uncaught" /\ exc' = "ValueError"
                ELSE IF Recognized THEN TakesValue ELSE SkipsToken]_vars

\* the scan of --max-frames -1 --x --skip 2 has finished
C9_Witness ==
    /\ pc = "call"
    /\ args = <<TokMaxFrames, <<"-", "1">>, TokUnknown, TokSkip, <<"2">>>>
    /\ i = 5
    /\ max_frames = -1
    /\ skip = Some(2)
    /\ output_dir = None

\* the events of a successful run up to and including its n-th frame
RECURSIVE FrameEvents(_)
FrameEvents(n) ==
    IF n <= 0 THEN <<>>
    ELSE FrameEvents(n - 1)
         \o <<Event("seek", (n - 1) * Val(skip)),
              Event("convert", (n - 1) * Val(skip)),
              Event("save", n - 1)>>

HeaderEvents ==
    <<Event("makedirs", 0), Event("GIF:", 0), Event("Total frames:", total_frames),
      Event("Skip: every", Val(skip)), Event("Output:", 0), Event("---", 0)>>

IsPrefix(a, b) == Len(a) <= Len(b) /\ a = SubSeq(b, 1, Len(a))

\* C10: a successful run ensures the directory and prints the progress
\* lines before the first seek, seeks, converts and writes each frame before
\* the next seek, and prints the summary once, after the last write and
\* before returning.
C10_StepOrder ==
    (call # None /\ skip # None /\ Len(log) >= 1 /\ exc # "SystemExit") =>
        /\ IsPrefix(log, HeaderEvents \o FrameEvents(extracted + 1))
           \/ log = HeaderEvents \o FrameEvents(extracted)
                       \o <<Event("Extracted", extracted)>>
        /\ ret # None =>
              /\ log = HeaderEvents \o FrameEvents(ret[2])
                          \o <<Event("Extracted", ret[2])>>
              /\ output_dir \in dirs
        /\ EventsOf("seek") # <<>> => output_dir \in dirs
        /\ pc = "seek" => Len(EventsOf("convert")) = Len(EventsOf("save"))
        /\ frame # None => Val(frame) = EventsOf("convert")[Len(EventsOf("convert"))].n

\* a run of at least two frames has returned
C10_Witness ==
    /\ pc = "returned"
    /\ ret # None
    /\ ret[2] >= 2
    /\ Len(EventsOf("Extracted")) = 1

====
